---- MODULE Spec2Model ----
(***************************************************************************)
(* Model of the audio-processor pipeline (src/main.go): the buffered job   *)
(* channel, the TransformStage worker loop, the upload and websocket       *)
(* handlers that submit a Job and wait on its private result channel, the  *)
(* cancellable context and the in-memory metadata store.                   *)
(***************************************************************************)
EXTENDS Integers, Sequences, FiniteSets, TLC

\* ---------------------------------------------------------------- bounds
\* capacity of the jobs channel (make(chan Job, 100) in main, scaled down)
QueueCap == 2
\* number of TransformStage goroutines that may be started
MaxWorkers == 2
\* number of concurrent /upload requests
NumHTTP == 2
\* number of concurrent /ws connections
NumWS == 1
\* messages one /ws connection reads before its peer goes away
MaxMsgs == 2
\* chunks built by all handlers together in one run
MaxJobs == 3
\* longest request body
MaxPayloadLen == 0
\* goroutines calling the store's methods at the same time
NumTasks == 3
\* store calls all of them make together in one run
MaxCalls == 3
\* distinct ChunkIDs those calls save
MaxStoreIds == 2
\* longest payload handed to the transformation on its own
MaxDataLen == 2

\* ---------------------------------------------------------------- inputs
Workers == 1..MaxWorkers
HTTPSubs == 1..NumHTTP
WSSubs == (NumHTTP + 1)..(NumHTTP + NumWS)
Submitters == HTTPSubs \cup WSSubs

Users == {"user1"}
Sessions == {"sess1"}
Bytes == {104}
Payloads == UNION {[1..n -> Bytes] : n \in 0..MaxPayloadLen}
\* a value rand.Intn(10000) returns
FFTVals == {4242}

NoChunk == [ChunkID |-> 0, UserID |-> "", SessionID |-> "", Timestamp |-> 0, Data |-> <<>>]
NoMeta == [ChunkID |-> 0, UserID |-> "", SessionID |-> "", Timestamp |-> 0,
           Checksum |-> -1, FFT |-> -1, Transcript |-> ""]
NoJob == [Chunk |-> NoChunk, Result |-> 0]

VARIABLES
    cancelled,   \* ctx.Done() is closed
    jobs,        \* the buffered channel of Jobs, oldest first
    wpc,         \* worker position: "off", "select", "send" (about to send the
                 \*   result), "blocked" (parked in the send), "done"
    wjob,        \* the Job a worker has received from the channel
    wmeta,       \* the Metadata the worker built for it
    subpc,       \* handler position: "idle"/"read", "enqueue", "sent" (about to
                 \*   receive the result), "wait" (parked in the receive),
                 \*   "save", "respond", "done"
    chunk,       \* handler local: chunk
    result,      \* handler local: result (a channel identity)
    meta,        \* handler local: meta
    store,       \* MemoryStore.metadata: the set of saved records, one per ChunkID
    responded,   \* Metadata encoded to the callers
    msgs,        \* number of chunks each handler has built so far
    ticket,      \* history: position of each handler's pending Job in the order of
                 \*          completed channel sends (0: no Job pending)
    nEnq,        \* history: number of completed sends on the jobs channel
    nDeq,        \* history: number of receives from the jobs channel
    nWritten,    \* history: number of completed sends on result channels
    deqs,        \* history: per ChunkID, how often a worker received that Job
    writes,      \* history: per result channel, how many values were sent on it
    lateSubmit,  \* history: handlers whose current chunk was built after cancel()
    atCancel,    \* history: ChunkIDs a worker was holding when cancel() ran
    mu,          \* MemoryStore.mu: [writer |-> task holding Lock or 0, readers |-> tasks holding RLock]
    tpc,         \* position of each task calling the store
    top,         \* the call a task is making: [op, meta, id, user]
    tres,        \* what the store method returned to the task
    tresp,       \* what the HTTP handler around the call answered
    ncalls,      \* number of calls the tasks have made so far
    lastSaved,   \* history: per ChunkID, the record of the last Save that returned
    xin,         \* a chunk handed to the transformation on its own
    xout         \* the Metadata built from xin

vars == <<cancelled, jobs, wpc, wjob, wmeta, subpc, chunk, result, meta, store,
          responded, msgs, ticket, nEnq, nDeq, nWritten, deqs, writes,
          lateSubmit, atCancel, mu, tpc, top, tres, tresp, ncalls, lastSaved, xin, xout>>

\* everything but the store that the pipeline reads or writes
pipeVars == <<cancelled, jobs, wpc, wjob, wmeta, subpc, chunk, result, meta,
              responded, msgs, ticket, nEnq, nDeq, nWritten, deqs, writes,
              lateSubmit, atCancel>>
lockVars == <<mu, tpc, top, tres, tresp, ncalls, lastSaved>>
xformVars == <<xin, xout>>
\* what the pipeline's own steps leave alone
auxVars == <<lockVars, xformVars>>

workerVars == <<wpc, wjob, wmeta>>
subLocals == <<chunk, result, meta>>
storeVars == <<store, responded>>
histVars == <<ticket, nEnq, nDeq, nWritten, deqs, writes, lateSubmit, atCancel>>

\* ---------------------------------------------------------------- helpers
RECURSIVE HashFrom(_, _)
HashFrom(h, data) ==
    IF data = <<>> THEN h
    ELSE HashFrom((h * 31 + Head(data) + 1) % 65536, Tail(data))

\* sha256.Sum256 rendered with %x: a deterministic digest of the bytes
Sha256(data) == HashFrom(7, data)

\* uuid.New().String(): a value no other call returns; the k-th chunk of
\* handler s gets an identity of its own
NewUUID(s, k) == (k - 1) * (NumHTTP + NumWS) + s

MakeChanShared(s, k) == 1

\* make(chan Metadata): a fresh unbuffered channel, identified like the chunk
MakeChan(s, k) == (k - 1) * (NumHTTP + NumWS) + s

\* time.Now(): a reading of the wall clock
Times == {1}

\* every identity NewUUID / MakeChan can hand out
Ids == 1..((NumHTTP + NumWS) * MaxMsgs)

LoopReturns == "done"

\* for { ... }: after the result is sent the worker is back at its select
LoopBack == "select"

AfterEnqueueAsync(s) == IF s \in WSSubs THEN "read" ELSE "sent"

\* the statement after  jobs <- Job{...}  is the receive  meta := <-result
AfterEnqueue(s) == "sent"

RECURSIVE SumOver(_, _)
SumOver(f, S) ==
    IF S = {} THEN 0
    ELSE LET x == CHOOSE y \in S : TRUE IN f[x] + SumOver(f, S \ {x})

IdleState(s) == IF s \in WSSubs THEN "read" ELSE "idle"

\* state the handler is in once it has answered
AfterRespond(s) == IF s \in WSSubs THEN "read" ELSE "done"

TransformStale(c, fft) ==
    [ChunkID |-> c.ChunkID, UserID |-> c.UserID, SessionID |-> "",
     Timestamp |-> c.Timestamp, Checksum |-> Sha256(<<>>), FFT |-> fft,
     Transcript |-> "Hello World"]

\* the Metadata literal of TransformStage
Transform(c, fft) ==
    [ChunkID |-> c.ChunkID, UserID |-> c.UserID, SessionID |-> c.SessionID,
     Timestamp |-> c.Timestamp, Checksum |-> Sha256(c.Data), FFT |-> fft,
     Transcript |-> "Hello World"]

SaveRecKeepOld(st, m) == IF \E r \in st : r.ChunkID = m.ChunkID THEN st ELSE st \cup {m}

SaveRecOnly(st, m) == {m}

SaveRecDrop(st, m) == st

\* s.metadata[meta.ChunkID] = meta
SaveRec(st, m) == {r \in st : r.ChunkID # m.ChunkID} \cup {m}

\* a send on the buffered channel can proceed
CanSendUnbounded(q) == TRUE

CanSend(q) == Len(q) < QueueCap

\* the receive  job := <-in  takes the oldest element
RecvNewest(q) == [job |-> q[Len(q)], rest |-> SubSeq(q, 1, Len(q) - 1)]

RecvKeep(q) == [job |-> Head(q), rest |-> q]

Recv(q) == [job |-> Head(q), rest |-> Tail(q)]

\* ---------------------------------------------------------------- store
Tasks == 1..NumTasks
StoreIds == 1..MaxStoreIds
\* the ids looked up include one that is never saved
LookupIds == 1..(MaxStoreIds + 1)
StoreUsers == {"user1", "user2"}
LookupUsers == StoreUsers \cup {"user3"}

\* the records the handlers save: Metadata built by TransformStage
SMetas ==
    {Transform([ChunkID |-> i, UserID |-> u, SessionID |-> "sess1", Timestamp |-> 1,
                Data |-> <<>>], f) : i \in StoreIds, u \in StoreUsers, f \in FFTVals}

NoCall == [op |-> "none", meta |-> NoMeta, id |-> 0, user |-> ""]
NoRes == [ok |-> FALSE, m |-> NoMeta, list |-> <<>>]
NoResp == [status |-> 0, body |-> NoRes]

GetRecAlwaysOk(st, id) ==
    [ok |-> TRUE,
     m |-> IF \E r \in st : r.ChunkID = id THEN CHOOSE r \in st : r.ChunkID = id ELSE NoMeta,
     list |-> <<>>]

\* m, ok := s.metadata[id]: the record under the key, or the zero Metadata and false
GetRec(st, id) ==
    IF \E r \in st : r.ChunkID = id
    THEN [ok |-> TRUE, m |-> CHOOSE r \in st : r.ChunkID = id, list |-> <<>>]
    ELSE [ok |-> FALSE, m |-> NoMeta, list |-> <<>>]

\* the orders in which  for _, m := range s.metadata  can visit the set S
Orders(S) == {q \in [1..Cardinality(S) -> S] : \A x \in S : \E k \in 1..Cardinality(S) : q[k] = x}

ListRecAll(st, u) == Orders(st)

\* ListByUser: the records with m.UserID == userID, each appended once, in map order
ListRec(st, u) == Orders({r \in st : r.UserID = u})

\* a map value whose key and provenance fields are written and whose derived
\* fields are not yet: what a goroutine reading during the assignment could see
Torn(m) == [m EXCEPT !.Checksum = -1, !.FFT = -1, !.Transcript = ""]

CanLockAlways(l) == TRUE

\* s.mu.Lock() returns: no writer and no reader holds the mutex
CanLock(l) == l.writer = 0 /\ l.readers = {}

CanRLockAlways(l) == TRUE

\* s.mu.RLock() returns: no writer holds the mutex
CanRLock(l) == l.writer = 0

\* handleGetChunk: the status line for what store.Get returned
GetStatus(res) == IF res.ok THEN 200 ELSE 404

\* ---------------------------------------------------------------- transformation inputs
XBytes == {0, 104}
XPayloads == UNION {[1..n -> XBytes] : n \in 0..MaxDataLen}
XChunks ==
    {[ChunkID |-> i, UserID |-> u, SessionID |-> ss, Timestamp |-> ts, Data |-> d] :
        i \in 1..2, u \in {"", "user1"}, ss \in {"", "sess1"}, ts \in 1..2, d \in XPayloads}
\* the ends of the range of rand.Intn(10000)
XFFTVals == {0, 9999}

\* ---------------------------------------------------------------- initial state
\* main up to  go TransformStage(ctx, jobs)  with n worker goroutines
PipeStart(n) ==
    /\ cancelled = FALSE
    /\ jobs = <<>>
    /\ wpc = [w \in Workers |-> IF w <= n THEN "select" ELSE "off"]
    /\ wjob = [w \in Workers |-> NoJob]
    /\ wmeta = [w \in Workers |-> NoMeta]
    /\ subpc = [s \in Submitters |-> IdleState(s)]
    /\ chunk = [s \in Submitters |-> NoChunk]
    /\ result = [s \in Submitters |-> 0]
    /\ meta = [s \in Submitters |-> NoMeta]
    /\ store = {}
    /\ responded = {}
    /\ msgs = [s \in Submitters |-> 0]
    /\ ticket = [s \in Submitters |-> 0]
    /\ nEnq = 0
    /\ nDeq = 0
    /\ nWritten = 0
    /\ deqs = [i \in Ids |-> 0]
    /\ writes = [i \in Ids |-> 0]
    /\ lateSubmit = {}
    /\ atCancel = {}

\* NewMemoryStore() with the given tasks about to call it
StoreStart(pc) ==
    /\ mu = [writer |-> 0, readers |-> {}]
    /\ tpc = [t \in Tasks |-> pc]
    /\ top = [t \in Tasks |-> NoCall]
    /\ tres = [t \in Tasks |-> NoRes]
    /\ tresp = [t \in Tasks |-> NoResp]
    /\ ncalls = 0
    /\ lastSaved = [i \in LookupIds |-> NoMeta]

XformIdle == xin = NoChunk /\ xout = NoMeta

Init ==
    /\ \E n \in 1..MaxWorkers : PipeStart(n)
    /\ StoreStart("off")
    /\ XformIdle

\* ---------------------------------------------------------------- handlers
\* handleUpload up to the channel send: read the body, build the chunk,
\* make the result channel
BeginUpload(s) ==
    /\ s \in HTTPSubs
    /\ subpc[s] = "idle"
    /\ SumOver(msgs, Submitters) < MaxJobs
    /\ \E u \in Users, ss \in Sessions, d \in Payloads, t \in Times :
          chunk' = [chunk EXCEPT ![s] =
                       [ChunkID |-> NewUUID(s, msgs[s] + 1), UserID |-> u, SessionID |-> ss,
                        Timestamp |-> t, Data |-> d]]
    /\ result' = [result EXCEPT ![s] = MakeChan(s, msgs[s] + 1)]
    /\ subpc' = [subpc EXCEPT ![s] = "enqueue"]
    /\ msgs' = [msgs EXCEPT ![s] = msgs[s] + 1]
    /\ lateSubmit' = IF cancelled THEN lateSubmit \cup {s} ELSE lateSubmit \ {s}
    /\ UNCHANGED auxVars
    /\ UNCHANGED <<cancelled, jobs, workerVars, meta, storeVars,
                   ticket, nEnq, nDeq, nWritten, deqs, writes, atCancel>>

\* handleWebSocket: ReadMessage succeeded; build the chunk and the channel
ReadMessage(s) ==
    /\ s \in WSSubs
    /\ subpc[s] = "read"
    /\ msgs[s] < MaxMsgs
    /\ SumOver(msgs, Submitters) < MaxJobs
    /\ \E d \in Payloads, t \in Times :
          chunk' = [chunk EXCEPT ![s] =
                       [ChunkID |-> NewUUID(s, msgs[s] + 1), UserID |-> "user1", SessionID |-> "sess1",
                        Timestamp |-> t, Data |-> d]]
    /\ result' = [result EXCEPT ![s] = MakeChan(s, msgs[s] + 1)]
    /\ subpc' = [subpc EXCEPT ![s] = "enqueue"]
    /\ msgs' = [msgs EXCEPT ![s] = msgs[s] + 1]
    /\ lateSubmit' = IF cancelled THEN lateSubmit \cup {s} ELSE lateSubmit \ {s}
    /\ UNCHANGED auxVars
    /\ UNCHANGED <<cancelled, jobs, workerVars, meta, storeVars,
                   ticket, nEnq, nDeq, nWritten, deqs, writes, atCancel>>

ReadFailFlush(s) ==
    /\ s \in WSSubs
    /\ subpc[s] = "read"
    /\ subpc' = [subpc EXCEPT ![s] = "done"]
    /\ jobs' = IF CanSend(jobs) THEN Append(jobs, [Chunk |-> chunk[s], Result |-> result[s]])
               ELSE jobs
    /\ UNCHANGED auxVars
    /\ UNCHANGED <<cancelled, workerVars, subLocals, storeVars, msgs, histVars>>

\* handleWebSocket: ReadMessage returned an error; the handler returns
ReadFail(s) ==
    /\ s \in WSSubs
    /\ subpc[s] = "read"
    /\ subpc' = [subpc EXCEPT ![s] = "done"]
    /\ UNCHANGED auxVars
    /\ UNCHANGED <<cancelled, jobs, workerVars, subLocals, storeVars, msgs, histVars>>

\* jobs <- Job{Chunk: chunk, Result: result}
Enqueue(s) ==
    /\ subpc[s] = "enqueue"
    /\ CanSend(jobs)
    /\ jobs' = Append(jobs, [Chunk |-> chunk[s], Result |-> result[s]])
    /\ subpc' = [subpc EXCEPT ![s] = AfterEnqueue(s)]
    /\ nEnq' = nEnq + 1
    /\ ticket' = [ticket EXCEPT ![s] = nEnq + 1]
    /\ UNCHANGED auxVars
    /\ UNCHANGED <<cancelled, workerVars, subLocals, storeVars, msgs,
                   nDeq, nWritten, deqs, writes, lateSubmit, atCancel>>

\* meta := <-result  with no sender parked on the channel: the handler parks
AwaitResult(s) ==
    /\ subpc[s] = "sent"
    /\ ~\E w \in Workers : wpc[w] = "blocked" /\ wjob[w].Result = result[s]
    /\ subpc' = [subpc EXCEPT ![s] = "wait"]
    /\ UNCHANGED auxVars
    /\ UNCHANGED <<cancelled, jobs, workerVars, subLocals, storeVars, msgs, histVars>>

\* store.Save(meta)
Save(s) ==
    /\ subpc[s] = "save"
    /\ store' = SaveRec(store, meta[s])
    /\ subpc' = [subpc EXCEPT ![s] = "respond"]
    /\ UNCHANGED auxVars
    /\ UNCHANGED <<cancelled, jobs, workerVars, subLocals, responded, msgs, histVars>>

\* json.NewEncoder(w).Encode(meta) / conn.WriteJSON(...)
Respond(s) ==
    /\ subpc[s] = "respond"
    /\ responded' = responded \cup {meta[s]}
    /\ subpc' = [subpc EXCEPT ![s] = AfterRespond(s)]
    /\ UNCHANGED auxVars
    /\ UNCHANGED <<cancelled, jobs, workerVars, subLocals, store, msgs, histVars>>

\* ---------------------------------------------------------------- worker
\* select: case job := <-in, followed by the construction of meta.
\* Go's select chooses among its ready cases at random, so the receive is
\* possible whenever the channel holds a Job, cancelled or not.
Dequeue(w) ==
    /\ wpc[w] = "select"
    /\ Len(jobs) > 0
    /\ LET r == Recv(jobs) IN
         /\ jobs' = r.rest
         /\ wjob' = [wjob EXCEPT ![w] = r.job]
         /\ \E f \in FFTVals : wmeta' = [wmeta EXCEPT ![w] = Transform(r.job.Chunk, f)]
         /\ deqs' = [deqs EXCEPT ![r.job.Chunk.ChunkID] = @ + 1]
    /\ nDeq' = nDeq + 1
    /\ wpc' = [wpc EXCEPT ![w] = "send"]
    /\ UNCHANGED auxVars
    /\ UNCHANGED <<cancelled, subpc, subLocals, storeVars, msgs,
                   ticket, nEnq, nWritten, writes, lateSubmit, atCancel>>

WorkerExitAnywhere(w) ==
    /\ wpc[w] \in {"select", "send", "blocked"}
    /\ cancelled
    /\ wpc' = [wpc EXCEPT ![w] = "done"]
    /\ UNCHANGED auxVars
    /\ UNCHANGED <<cancelled, jobs, wjob, wmeta, subpc, subLocals, storeVars, msgs, histVars>>

\* select: case <-ctx.Done(): return
WorkerExit(w) ==
    /\ wpc[w] = "select"
    /\ cancelled
    /\ wpc' = [wpc EXCEPT ![w] = "done"]
    /\ UNCHANGED auxVars
    /\ UNCHANGED <<cancelled, jobs, wjob, wmeta, subpc, subLocals, storeVars, msgs, histVars>>

\* job.Result <- meta  with no receiver parked on the channel: the worker parks
ParkSend(w) ==
    /\ wpc[w] = "send"
    /\ ~\E s \in Submitters : subpc[s] = "wait" /\ result[s] = wjob[w].Result
    /\ wpc' = [wpc EXCEPT ![w] = "blocked"]
    /\ UNCHANGED auxVars
    /\ UNCHANGED <<cancelled, jobs, wjob, wmeta, subpc, subLocals, storeVars, msgs, histVars>>

\* job.Result <- meta  meeting  meta := <-result  on the unbuffered channel:
\* the side that arrives second finds the other parked and the value is handed over
Deliver(w, s) ==
    /\ \/ wpc[w] = "send" /\ subpc[s] = "wait"
       \/ wpc[w] = "blocked" /\ subpc[s] = "sent"
    /\ wjob[w].Result = result[s]
    /\ meta' = [meta EXCEPT ![s] = wmeta[w]]
    /\ subpc' = [subpc EXCEPT ![s] = "save"]
    /\ wpc' = [wpc EXCEPT ![w] = LoopBack]
    /\ wjob' = [wjob EXCEPT ![w] = NoJob]
    /\ wmeta' = [wmeta EXCEPT ![w] = NoMeta]
    /\ writes' = [writes EXCEPT ![wjob[w].Result] = @ + 1]
    /\ nWritten' = nWritten + 1
    /\ ticket' = [ticket EXCEPT ![s] = 0]
    /\ UNCHANGED auxVars
    /\ UNCHANGED <<cancelled, jobs, chunk, result, storeVars, msgs,
                   nEnq, nDeq, deqs, lateSubmit, atCancel>>

\* ---------------------------------------------------------------- context
\* cancel()
Cancel ==
    /\ ~cancelled
    /\ cancelled' = TRUE
    /\ atCancel' = {wjob[w].Chunk.ChunkID : w \in {x \in Workers : wpc[x] \in {"send", "blocked"}}}
    /\ UNCHANGED auxVars
    /\ UNCHANGED <<jobs, workerVars, subpc, subLocals, storeVars, msgs,
                   ticket, nEnq, nDeq, nWritten, deqs, writes, lateSubmit>>

Next ==
    \/ \E s \in Submitters : BeginUpload(s)
    \/ \E s \in Submitters : ReadMessage(s)
    \/ \E s \in Submitters : ReadFail(s)
    \/ \E s \in Submitters : Enqueue(s)
    \/ \E s \in Submitters : AwaitResult(s)
    \/ \E s \in Submitters : Save(s)
    \/ \E s \in Submitters : Respond(s)
    \/ \E w \in Workers : Dequeue(w)
    \/ \E w \in Workers : WorkerExit(w)
    \/ \E w \in Workers : ParkSend(w)
    \/ \E w \in Workers, s \in Submitters : Deliver(w, s)
    \/ Cancel

Spec == Init /\ [][Next]_vars

\* The Go scheduler runs every runnable goroutine: a handler that can send,
\* save or answer does so, a worker at its select with a ready case takes one,
\* and a ready rendezvous on a result channel happens.  Requests arriving,
\* reads failing and cancel() are the environment's and are not forced.
Fairness ==
    /\ \A s \in Submitters : WF_vars(Enqueue(s))
    /\ \A s \in Submitters : WF_vars(AwaitResult(s))
    /\ \A s \in Submitters : WF_vars(Save(s))
    /\ \A s \in Submitters : WF_vars(Respond(s))
    /\ \A w \in Workers : WF_vars(Dequeue(w) \/ WorkerExit(w))
    /\ \A w \in Workers : WF_vars(ParkSend(w))
    /\ \A w \in Workers, s \in Submitters : WF_vars(Deliver(w, s))

FairSpec == Init /\ [][Next]_vars /\ Fairness

TypeOK ==
    /\ cancelled \in BOOLEAN
    /\ Len(jobs) <= QueueCap
    /\ \A s \in Submitters : msgs[s] <= MaxMsgs

\* ---------------------------------------------------------------- store calls
\* a goroutine calls store.Save(m), as the handlers do with a worker's
\* Metadata, and its s.mu.Lock() returns
Lock(t, m) ==
    /\ tpc[t] = "idle"
    /\ ncalls < MaxCalls
    /\ CanLock(mu)
    /\ mu' = [mu EXCEPT !.writer = t]
    /\ top' = [top EXCEPT ![t] = [op |-> "save", meta |-> m, id |-> m.ChunkID, user |-> m.UserID]]
    /\ ncalls' = ncalls + 1
    /\ tpc' = [tpc EXCEPT ![t] = "write"]
    /\ UNCHANGED <<pipeVars, store, xformVars, tres, tresp, lastSaved>>

\* Save: s.metadata[meta.ChunkID] = meta, the key and the first fields
WriteKey(t) ==
    /\ tpc[t] = "write"
    /\ store' = SaveRec(store, Torn(top[t].meta))
    /\ tpc' = [tpc EXCEPT ![t] = "write2"]
    /\ UNCHANGED <<pipeVars, xformVars, mu, top, tres, tresp, ncalls, lastSaved>>

\* Save: s.metadata[meta.ChunkID] = meta, the remaining fields
WriteRest(t) ==
    /\ tpc[t] = "write2"
    /\ store' = SaveRec(store, top[t].meta)
    /\ tpc' = [tpc EXCEPT ![t] = "unlock"]
    /\ UNCHANGED <<pipeVars, xformVars, mu, top, tres, tresp, ncalls, lastSaved>>

\* Save: the deferred s.mu.Unlock(), and Save returns
Unlock(t) ==
    /\ tpc[t] = "unlock"
    /\ mu' = [mu EXCEPT !.writer = 0]
    /\ lastSaved' = [lastSaved EXCEPT ![top[t].id] = top[t].meta]
    /\ tpc' = [tpc EXCEPT ![t] = "idle"]
    /\ UNCHANGED <<pipeVars, store, xformVars, top, tres, tresp, ncalls>>

\* handleGetChunk calls store.Get(id) and its s.mu.RLock() returns
RLockGet(t, id) ==
    /\ tpc[t] = "idle"
    /\ ncalls < MaxCalls
    /\ CanRLock(mu)
    /\ mu' = [mu EXCEPT !.readers = @ \cup {t}]
    /\ top' = [top EXCEPT ![t] = [op |-> "get", meta |-> NoMeta, id |-> id, user |-> ""]]
    /\ tres' = [tres EXCEPT ![t] = NoRes]
    /\ tresp' = [tresp EXCEPT ![t] = NoResp]
    /\ ncalls' = ncalls + 1
    /\ tpc' = [tpc EXCEPT ![t] = "read"]
    /\ UNCHANGED <<pipeVars, store, xformVars, lastSaved>>

\* handleGetUserSessions calls store.ListByUser(userID) and its s.mu.RLock() returns
RLockList(t, u) ==
    /\ tpc[t] = "idle"
    /\ ncalls < MaxCalls
    /\ CanRLock(mu)
    /\ mu' = [mu EXCEPT !.readers = @ \cup {t}]
    /\ top' = [top EXCEPT ![t] = [op |-> "list", meta |-> NoMeta, id |-> 0, user |-> u]]
    /\ tres' = [tres EXCEPT ![t] = NoRes]
    /\ tresp' = [tresp EXCEPT ![t] = NoResp]
    /\ ncalls' = ncalls + 1
    /\ tpc' = [tpc EXCEPT ![t] = "read"]
    /\ UNCHANGED <<pipeVars, store, xformVars, lastSaved>>

\* Get: m, ok := s.metadata[id]
ReadGet(t) ==
    /\ tpc[t] = "read"
    /\ top[t].op = "get"
    /\ tres' = [tres EXCEPT ![t] = GetRec(store, top[t].id)]
    /\ tpc' = [tpc EXCEPT ![t] = "runlock"]
    /\ UNCHANGED <<pipeVars, store, xformVars, mu, top, tresp, ncalls, lastSaved>>

\* ListByUser: the loop over s.metadata
ReadList(t) ==
    /\ tpc[t] = "read"
    /\ top[t].op = "list"
    /\ \E q \in ListRec(store, top[t].user) :
          tres' = [tres EXCEPT ![t] = [ok |-> TRUE, m |-> NoMeta, list |-> q]]
    /\ tpc' = [tpc EXCEPT ![t] = "runlock"]
    /\ UNCHANGED <<pipeVars, store, xformVars, mu, top, tresp, ncalls, lastSaved>>

\* Get: the deferred s.mu.RUnlock(); handleGetChunk then encodes meta or
\* answers http.Error(w, "Not Found", 404)
RUnlockGet(t) ==
    /\ tpc[t] = "runlock"
    /\ top[t].op = "get"
    /\ mu' = [mu EXCEPT !.readers = @ \ {t}]
    /\ tresp' = [tresp EXCEPT ![t] = [status |-> GetStatus(tres[t]), body |-> tres[t]]]
    /\ tpc' = [tpc EXCEPT ![t] = "idle"]
    /\ UNCHANGED <<pipeVars, store, xformVars, top, tres, ncalls, lastSaved>>

\* ListByUser: the deferred s.mu.RUnlock(); handleGetUserSessions then encodes result
RUnlockList(t) ==
    /\ tpc[t] = "runlock"
    /\ top[t].op = "list"
    /\ mu' = [mu EXCEPT !.readers = @ \ {t}]
    /\ tresp' = [tresp EXCEPT ![t] = [status |-> 200, body |-> tres[t]]]
    /\ tpc' = [tpc EXCEPT ![t] = "idle"]
    /\ UNCHANGED <<pipeVars, store, xformVars, top, tres, ncalls, lastSaved>>

StoreInit ==
    /\ PipeStart(1)
    /\ StoreStart("idle")
    /\ XformIdle

StoreNext ==
    \/ \E t \in Tasks, m \in SMetas : Lock(t, m)
    \/ \E t \in Tasks : WriteKey(t)
    \/ \E t \in Tasks : WriteRest(t)
    \/ \E t \in Tasks : Unlock(t)
    \/ \E t \in Tasks, id \in LookupIds : RLockGet(t, id)
    \/ \E t \in Tasks, u \in LookupUsers : RLockList(t, u)
    \/ \E t \in Tasks : ReadGet(t)
    \/ \E t \in Tasks : ReadList(t)
    \/ \E t \in Tasks : RUnlockGet(t)
    \/ \E t \in Tasks : RUnlockList(t)

\* the store under concurrent callers
StoreSpec == StoreInit /\ [][StoreNext]_vars

\* ---------------------------------------------------------------- transformation alone
\* the body of the  case job := <-in  branch applied to one chunk
ApplyTransform ==
    /\ xout = NoMeta
    /\ \E f \in XFFTVals : xout' = Transform(xin, f)
    /\ UNCHANGED <<pipeVars, store, lockVars, xin>>

\* the next Job comes out of the channel
NextChunk ==
    /\ xout # NoMeta
    /\ \E c \in XChunks : xin' = c
    /\ xout' = NoMeta
    /\ UNCHANGED <<pipeVars, store, lockVars>>

XformInit ==
    /\ PipeStart(1)
    /\ StoreStart("off")
    /\ xin \in XChunks
    /\ xout = NoMeta

XformNext == ApplyTransform \/ NextChunk

XformSpec == XformInit /\ [][XformNext]_vars

\* ---------------------------------------------------------------- properties
Started == {w \in Workers : wpc[w] # "off"}
OneWorker == Cardinality(Started) = 1
Holding(w) == wpc[w] \in {"send", "blocked"}
WorkersGone == \A w \in Workers : wpc[w] \in {"off", "done"}

\* C1: no Job is received from the queue twice, no result channel is sent on
\* twice, and no two workers hold a value for the same result channel.
C1_AtMostOneResult ==
    /\ \A i \in Ids : deqs[i] <= 1 /\ writes[i] <= 1
    /\ \A w1, w2 \in Workers :
          (w1 # w2 /\ Holding(w1) /\ Holding(w2))
             => wjob[w1].Result # wjob[w2].Result

C1_Witness ==
    /\ Cardinality(Started) >= 2
    /\ cancelled
    /\ Cardinality({i \in Ids : deqs[i] = 1 /\ writes[i] = 1}) >= 2

\* C2: as long as the context is never cancelled, every Job whose send on the
\* jobs channel completed is eventually answered: one value is sent on its
\* result channel and its handler holds the Metadata of its own chunk.
C2_EventuallyAnswered ==
    ([]~cancelled) =>
        \A s \in Submitters, k \in 1..MaxMsgs :
            (ticket[s] # 0 /\ msgs[s] = k)
               ~> (/\ subpc[s] = "save"
                   /\ msgs[s] = k
                   /\ meta[s].ChunkID = chunk[s].ChunkID
                   /\ writes[result[s]] = 1)

C2_Witness ==
    /\ ~cancelled
    /\ \A s \in Submitters : msgs[s] >= 1 /\ subpc[s] = "done" /\ writes[result[s]] = 1

\* C3: the Metadata a handler received from its result channel carries the
\* ChunkID of the chunk that handler put on the queue.
C3_OwnResult ==
    \A s \in Submitters :
        subpc[s] \in {"save", "respond"} => meta[s].ChunkID = chunk[s].ChunkID

C3_Witness ==
    /\ Cardinality(Started) >= 2
    /\ \E s1, s2 \in Submitters :
          /\ s1 # s2
          /\ subpc[s1] = "save" /\ subpc[s2] = "save"
          /\ meta[s1].ChunkID # meta[s2].ChunkID

\* C4: with a single worker the results are written in the order in which the
\* sends on the jobs channel completed: every Job still unanswered was queued
\* after all those already answered, the Job the worker holds is the next one
\* in that order, and the queue holds the following ones in order.
C4_FIFO ==
    OneWorker =>
        /\ \A s \in Submitters : ticket[s] # 0 => ticket[s] > nWritten
        /\ \A w \in Workers : Holding(w) =>
              \E s \in Submitters : result[s] = wjob[w].Result /\ ticket[s] = nWritten + 1
        /\ \A i \in 1..Len(jobs) :
              \E s \in Submitters : result[s] = jobs[i].Result /\ ticket[s] = nDeq + i

C4_Witness ==
    /\ OneWorker
    /\ nWritten >= 2
    /\ Len(jobs) >= 1

\* C5: the queue never holds more than QueueCap Jobs, and while it holds
\* QueueCap Jobs no send on it completes.
C5_Bounded ==
    /\ [](nEnq - nDeq <= QueueCap /\ Len(jobs) = nEnq - nDeq)
    /\ [][Len(jobs) = QueueCap => nEnq' = nEnq]_vars

C5_Witness ==
    /\ Len(jobs) = QueueCap
    /\ \E s \in Submitters : subpc[s] = "enqueue"
    /\ \A w \in Workers : wpc[w] # "select"

\* C6: a handler blocked on the full queue when the context is cancelled
\* gets a ShutdownError.
C6_BlockedSubmitFails ==
    \A s \in Submitters :
        (cancelled /\ subpc[s] = "enqueue" /\ Len(jobs) = QueueCap)
           ~> (subpc[s] = "shutdown_error")

\* C7: a Job built after the cancellation is never accepted into the queue.
C7_LateSubmitRejected ==
    \A s \in lateSubmit : ticket[s] = 0 /\ subpc[s] \notin {"sent", "wait"}

\* C8: once the context is cancelled no worker receives a Job from the queue.
C8_NoDequeueAfterCancel ==
    [][cancelled => nDeq' = nDeq]_vars

\* C9: a handler whose Job is left in the queue after the cancellation, with
\* every worker gone, eventually gets a ShutdownError.
C9_AbandonedObservesFailure ==
    \A s \in Submitters :
        (cancelled /\ WorkersGone /\ subpc[s] \in {"sent", "wait"} /\ ticket[s] > nDeq)
           ~> (subpc[s] = "shutdown_error")

GetReads(t) == tpc[t] = "read" /\ top[t].op = "get" /\ tpc'[t] = "runlock"
ListReads(t) == tpc[t] = "read" /\ top[t].op = "list" /\ tpc'[t] = "runlock"
\* the records of the Saves that have returned, for one user
SavedFor(u) ==
    {lastSaved[i] : i \in {k \in LookupIds : lastSaved[k] # NoMeta /\ lastSaved[k].UserID = u}}
Range(q) == {q[k] : k \in 1..Len(q)}
Writing == {t \in Tasks : tpc[t] \in {"write", "write2", "unlock"}}
Reading == {t \in Tasks : tpc[t] \in {"read", "runlock"}}

\* C11: when Save returns the record is in the store under its ChunkID, and a
\* Get of a ChunkID finds exactly the record of the last Save that returned.
C11_SaveThenGet ==
    [][/\ \A t \in Tasks :
             (tpc[t] = "unlock" /\ tpc'[t] = "idle")
                => GetRec(store', top[t].id) = [ok |-> TRUE, m |-> top[t].meta, list |-> <<>>]
       /\ \A t \in Tasks :
             (GetReads(t) /\ lastSaved[top[t].id] # NoMeta)
                => tres'[t].ok /\ tres'[t].m = lastSaved[top[t].id]]_vars

C11_Witness ==
    \E t, t2 \in Tasks :
        /\ t # t2
        /\ tpc[t] = "runlock" /\ top[t].op = "get"
        /\ tres[t].ok /\ tres[t].m = lastSaved[top[t].id]
        /\ tpc[t2] = "idle" /\ top[t2].op = "save"
        /\ top[t2].id = top[t].id /\ top[t2].meta # tres[t].m

\* C12: ListByUser returns each record of the Saves that have returned whose
\* UserID is the one asked for, once, and nothing else.
C12_ListByUser ==
    [][\A t \in Tasks :
          ListReads(t)
             => /\ Range(tres'[t].list) = SavedFor(top[t].user)
                /\ Len(tres'[t].list) = Cardinality(SavedFor(top[t].user))]_vars

C12_Witness ==
    \E t \in Tasks :
        /\ tpc[t] = "runlock" /\ top[t].op = "list"
        /\ Len(tres[t].list) >= 1
        /\ \E r \in store : r.UserID # top[t].user

C14_Exclusion ==
    /\ Cardinality(Writing) <= 1
    /\ Writing # {} => Reading = {}
    /\ \A t \in Tasks :
          /\ (top[t].op = "get" /\ tres[t].ok) => tres[t].m \in SMetas
          /\ Range(tres[t].list) \subseteq SMetas

C14_Witness ==
    /\ Cardinality(Reading) >= 2
    /\ store # {}

\* ---------------------------------------------------------------- transformation properties
\* C15: the Metadata built from a chunk carries the chunk's ChunkID, UserID,
\* SessionID and Timestamp and the digest of its Data, for every chunk, the
\* one with empty Data included, and is a complete record.
C15_TransformCopies ==
    xout # NoMeta =>
        /\ xout.ChunkID = xin.ChunkID
        /\ xout.UserID = xin.UserID
        /\ xout.SessionID = xin.SessionID
        /\ xout.Timestamp = xin.Timestamp
        /\ xout.Checksum = Sha256(xin.Data)
        /\ xout.Checksum \in 0..65535
        /\ xout.FFT \in 0..9999
        /\ xout.Transcript # ""

C15_Witness ==
    /\ xout # NoMeta
    /\ xin.Data = <<>>
    /\ xin.SessionID # ""

\* ---------------------------------------------------------------- pipeline properties, continued
\* the handler that made result channel c
OwnerOf(c) == ((c - 1) % (NumHTTP + NumWS)) + 1
\* the Jobs of handler s that are in the queue or in a worker's hands
InFlight(s) ==
    Cardinality({i \in 1..Len(jobs) : OwnerOf(jobs[i].Result) = s})
      + Cardinality({w \in Workers : Holding(w) /\ OwnerOf(wjob[w].Result) = s})

\* C16 as stated: a worker parked in the send on a result channel implies an
\* empty queue.
C16_BlockedOnlyWhenEmpty ==
    \A w \in Workers : wpc[w] = "blocked" => Len(jobs) = 0

\* C16 amended: a worker is parked in the send on a result channel only while
\* the handler that submitted that Job has completed its send on the queue
\* and has not yet reached its receive.
C16_BlockedOnlyOnSubmitter ==
    \A w \in Workers :
        wpc[w] = "blocked" =>
            \E s \in Submitters :
                result[s] = wjob[w].Result /\ subpc[s] = "sent" /\ ticket[s] # 0

C16_Witness ==
    \E w \in Workers : wpc[w] = "blocked" /\ Len(jobs) > 0

\* C17: every Metadata answered to a caller was sent once on a result channel
\* and is what Get returns for its ChunkID.
C17_SavedBeforeAnswer ==
    \A m \in responded :
        /\ writes[m.ChunkID] = 1
        /\ GetRec(store, m.ChunkID) = [ok |-> TRUE, m |-> m, list |-> <<>>]

C17_Witness ==
    /\ Cardinality(responded) >= 2
    /\ \E s \in WSSubs : msgs[s] >= 1 /\ subpc[s] = "read"

\* C18: a handler has at most one Job in the queue or in a worker's hands,
\* it is then waiting for that Job's result, and a connection sends its next
\* Job only when the Metadata of its previous chunk is in the store.
C18_OneInFlight ==
    \A s \in Submitters :
        /\ InFlight(s) <= 1
        /\ InFlight(s) = 1 => subpc[s] \in {"sent", "wait"}
        /\ (subpc[s] = "enqueue" /\ msgs[s] >= 2)
              => \E r \in store : r.ChunkID = NewUUID(s, msgs[s] - 1)

C18_Witness ==
    \E s \in WSSubs : msgs[s] = 2 /\ subpc[s] = "wait" /\ InFlight(s) = 1

\* C19: the step in which a connection's read fails changes nothing but that
\* connection's position.
C19_ReadFailFrame ==
    [][\A s \in WSSubs :
          (subpc[s] = "read" /\ subpc'[s] = "done")
             => /\ UNCHANGED <<cancelled, jobs, wpc, wjob, wmeta, chunk, result, meta,
                              store, responded, msgs, nEnq, nDeq, nWritten, ticket>>
                /\ \A o \in Submitters \ {s} : subpc'[o] = subpc[o]]_vars

C19_Witness ==
    \E s \in WSSubs :
        /\ subpc[s] = "done"
        /\ Len(jobs) >= 1
        /\ \E w \in Workers : Holding(w)
        /\ store # {}

\* C20: every record in the store has the ChunkID of a Job whose result was
\* delivered, no two records share a ChunkID, and no step changes or removes
\* a record.
C20_StoreOnlyGrows ==
    /\ [](/\ \A r \in store : writes[r.ChunkID] = 1 /\ deqs[r.ChunkID] = 1
          /\ \A r1, r2 \in store : r1.ChunkID = r2.ChunkID => r1 = r2)
    /\ [][store \subseteq store']_vars

C20_Witness ==
    /\ Cardinality(store) >= 3
    /\ cancelled

====
